---- MODULE Spec2Model ----
(***************************************************************************)
(* A model of fairseq2.nn.transformer.decoder: the construction of a       *)
(* StandardTransformerDecoder and its forward pass.                        *)
(*                                                                         *)
(* Sequences are unbatched, shape (T).  A tensor of shape (T, M) is the    *)
(* record [dim |-> M, v |-> <<v_1, ..., v_T>>]: its trailing width and one *)
(* number per position.  The arithmetic of the collaborators (embedding    *)
(* table, positional encoder, Layer Normalization, linear projections,     *)
(* decoder layers) is fixed, position-wise where the real one is, and      *)
(* distinct per collaborator, computed modulo Q.                           *)
(***************************************************************************)
EXTENDS Integers, Sequences, FiniteSets, TLC

VARIABLES dec, training, bag, fed, call

vars == <<dec, training, bag, fed, call>>

(***************************************************************************)
(* Bounds of the model.                                                    *)
(***************************************************************************)
\* the longest layer stack handed to the constructor
MaxLayers == 2
\* the longest target sequence handed to forward
MaxSeqLen == 2
\* the largest number of positions an incremental state caches per layer
MaxCache == 2
\* the modulus of the value arithmetic
Q == 97

\* widths of layers and embeddings (perfect squares, so that sqrt is exact)
Dims == {1, 4}
\* target symbols; 0 is the symbol a padding index, when configured, names
Syms == {0, 1}
\* probabilities, in percent
LayerDropPs == {0, 50, 100}
EmbedDropoutPs == {0, 50}
\* values of torch.rand, in percent of the unit interval [0, 1)
DrawVals == {0, 75}
NormOrders == {"POST", "PRE", "PRE_FINAL"}

\* Optional[int] = None
NoIdx == -1

RECURSIVE SeqsUpTo(_, _)
SeqsUpTo(S, n) ==
    IF n = 0 THEN {<<>>}
    ELSE LET shorter == SeqsUpTo(S, n - 1)
         IN  shorter \cup {Append(s, x) : s \in {t \in shorter : Len(t) = n - 1}, x \in S}

RECURSIVE SumSeq(_)
SumSeq(s) == IF s = <<>> THEN 0 ELSE Head(s) + SumSeq(Tail(s))

\* math.sqrt on the perfect squares of Dims
Sqrt(n) == CHOOSE r \in 0..n : r * r = n

(***************************************************************************)
(* Tensors and masks.                                                      *)
(***************************************************************************)
NoTensor == [dim |-> 0, v |-> <<>>]

\* the value a float mask holds where a boolean mask holds True (-inf)
NegInf == -1

\* Optional[Tensor] = None, for a mask
NoMask == [present |-> FALSE, m |-> <<>>]

\* to_float_mask: True becomes -inf, False becomes 0.0
to_float_mask(boolmask) ==
    [i \in 1..Len(boolmask) |-> IF boolmask[i] THEN NegInf ELSE 0]

(***************************************************************************)
(* Construction.                                                           *)
(***************************************************************************)
\* An Iterable[TransformerDecoderLayer]: the layers' model_dim in order, and
\* whether the iterable can be traversed only once (an iterator, a generator).
\* The nth traversal of a one-shot iterable yields nothing for nth > 1.
Traverse(layers, nth) ==
    IF layers.one_shot /\ nth > 1 THEN <<>> ELSE layers.items

Unconstructed ==
    [status |-> "unconstructed", error |-> "", err_idx |-> NoIdx,
     model_dim |-> 0, embedding_dim |-> 0, embed_scale |-> 0,
     padding_idx |-> NoIdx, has_pos_embed |-> FALSE, has_embed_norm |-> FALSE,
     embed_dropout_p |-> 0, has_inp_dim_proj |-> FALSE, layers |-> <<>>,
     layer_drop_p |-> 0, has_layer_norm |-> FALSE, has_out_dim_proj |-> FALSE,
     no_scale_embed |-> FALSE, norm_order |-> "POST"]

\* raise ValueError(...): no decoder object comes to exist
CtorError(kind, idx, layer_list) ==
    [Unconstructed EXCEPT !.status = "error", !.error = kind, !.err_idx = idx,
                          !.layers = layer_list]

\* the first index (0-based, as enumerate counts) whose layer's model_dim
\* differs from model_dim, or NoIdx
FirstMismatch(items, model_dim) ==
    LET bad == {i \in 1..Len(items) : items[i] # model_dim}
    IN  IF bad = {} THEN NoIdx
        ELSE (CHOOSE i \in bad : \A j \in bad : i <= j) - 1

\* `if embedding_dim != model_dim:` before self.inp_dim_proj is built
InpDimProjNeeded(embedding_dim, model_dim) == embedding_dim # model_dim

\* the output adapter built only when the embedding is the wider side
OutDimProjNeededWider(embedding_dim, model_dim) == embedding_dim > model_dim

\* `if embedding_dim != model_dim:` before self.out_dim_proj is built
OutDimProjNeeded(embedding_dim, model_dim) == embedding_dim # model_dim

\* StandardTransformerDecoder.__init__; the decoder keeps, beside its own
\* attributes, the no_scale_embed and norm_order it was constructed with
\*   a.embed = [embedding_dim, padding_idx], a.pos_embed_dim (0: no pos_embed),
\*   a.layers = [items, one_shot], a.no_scale_embed, a.norm_embed,
\*   a.embed_dropout_p, a.layer_drop_p, a.norm_order
StandardTransformerDecoder(a) ==
    LET layer_list == Traverse(a.layers, 1)
        model_dim == layer_list[1]
        checked == Traverse(a.layers, 2)
        bad == FirstMismatch(checked, model_dim)
        embedding_dim == a.embed.embedding_dim
    IN  IF Len(layer_list) = 0 THEN CtorError("empty_layers", NoIdx, layer_list)
        ELSE IF bad # NoIdx THEN CtorError("layer_model_dim", bad, layer_list)
        ELSE IF a.pos_embed_dim # 0 /\ a.pos_embed_dim # embedding_dim
             THEN CtorError("pos_embed_dim", NoIdx, layer_list)
        ELSE [status |-> "ok", error |-> "", err_idx |-> NoIdx,
              model_dim |-> model_dim,
              embedding_dim |-> embedding_dim,
              embed_scale |-> IF a.no_scale_embed THEN 1 ELSE Sqrt(embedding_dim),
              padding_idx |-> a.embed.padding_idx,
              has_pos_embed |-> a.pos_embed_dim # 0,
              has_embed_norm |-> a.norm_embed,
              embed_dropout_p |-> a.embed_dropout_p,
              has_inp_dim_proj |-> InpDimProjNeeded(embedding_dim, model_dim),
              layers |-> layer_list,
              layer_drop_p |-> a.layer_drop_p,
              has_layer_norm |-> a.norm_order # "POST",
              has_out_dim_proj |-> OutDimProjNeeded(embedding_dim, model_dim),
              no_scale_embed |-> a.no_scale_embed,
              norm_order |-> a.norm_order]

(***************************************************************************)
(* The collaborators of the forward pass.                                  *)
(***************************************************************************)
\* IncrementalStateBag: the decoding step and, per layer of the stack, the
\* key/value entries the layer has cached; each entry keeps the position's
\* value and whether the position was padding.
NoBag == [present |-> FALSE, step |-> 0, kv |-> <<>>]

EmptyBag(n) == [present |-> TRUE, step |-> 0, kv |-> [l \in 1..n |-> <<>>]]

\* one sub-step of a forward call, as the call log records it; a layer's
\* record keeps the arguments the layer was called with
Ev(op) == [op |-> op, idx |-> 0, am |-> NoMask, pm |-> NoMask, sb |-> FALSE]

LayerEv(l, am, pm, sb) ==
    [op |-> "layer", idx |-> l, am |-> am, pm |-> pm, sb |-> sb.present]

\* Embedding.forward: the row of the table a symbol names
Embedding(d, seq) ==
    [dim |-> d.embedding_dim, v |-> [i \in 1..Len(seq) |-> (10 * (seq[i] + 1)) % Q]]

Scale(x, factor) == [x EXCEPT !.v = [i \in 1..Len(x.v) |-> (x.v[i] * factor) % Q]]

\* PositionalEmbedding.forward: adds the encoding of each position's index,
\* counted from the state bag's step when a state bag is given
PositionalEmbedding(x, state_bag) ==
    LET start == IF state_bag.present THEN state_bag.step ELSE 0
    IN  [x EXCEPT !.v = [i \in 1..Len(x.v) |-> (x.v[i] + (start + i)) % Q]]

\* LayerNorm.forward, position-wise; w tells the module's own weights apart
LayerNorm(x, w) == [x EXCEPT !.v = [i \in 1..Len(x.v) |-> (3 * x.v[i] + w) % Q]]

\* F.dropout(x, p, training): in training, the elements the noise marks are
\* zeroed and the others scaled by 1 / (1 - p); otherwise x is returned
dropout(x, p, train, noise) ==
    IF train
    THEN [x EXCEPT !.v = [i \in 1..Len(x.v) |->
              IF noise[i] THEN 0 ELSE ((x.v[i] * 100) \div (100 - p)) % Q]]
    ELSE x

\* InternalDimProjection: y = xW + b, from inp_dim to out_dim
InternalDimProjection(x, out_dim, w, b) ==
    [dim |-> out_dim, v |-> [i \in 1..Len(x.v) |-> (w * x.v[i] + b) % Q]]

\* CausalAttentionMaskGenerator: entry (i, j) is 0 where j <= i and -inf elsewhere
CausalAttentionMaskGenerator(x) ==
    [present |-> TRUE,
     m |-> [i \in 1..Len(x.v) |-> [j \in 1..Len(x.v) |-> IF j <= i THEN 0 ELSE NegInf]]]

\* ModuleList.__iter__ with LayerDrop: the indices of the layers a forward
\* call runs.  In training with drop_p > 0 one number is drawn per layer and
\* the layer is skipped when the draw falls below drop_p.
drop_iter(d, train, draws) ==
    SelectSeq([l \in 1..Len(d.layers) |-> l],
              LAMBDA l : ~(train /\ d.layer_drop_p > 0 /\ draws[l] < d.layer_drop_p))

\* TransformerDecoderLayer.forward for the layer at index l of the stack.
\* A query position attends to every cached position and to the positions of
\* this call the self-attention mask allows (all of them without a mask),
\* padding excluded; the layer appends this call's key/value entries to its
\* part of the state bag.
TransformerDecoderLayer(l, x, am, pm, enc, state_bag) ==
    LET T == Len(x.v)
        cached == IF state_bag.present THEN state_bag.kv[l] ELSE <<>>
        cur == [j \in 1..T |-> [x |-> x.v[j], pad |-> pm.present /\ pm.m[j] = NegInf]]
        past == SumSeq([k \in 1..Len(cached) |->
                           IF cached[k].pad THEN 0 ELSE cached[k].x])
        seen(i) == SumSeq([j \in 1..T |->
                           IF cur[j].pad \/ (am.present /\ am.m[i][j] # 0)
                           THEN 0 ELSE x.v[j]])
    IN  [x |-> [x EXCEPT !.v = [i \in 1..T |->
                    (2 * x.v[i] + l + 3 * enc + past + seen(i)) % Q]],
         state_bag |-> IF state_bag.present
                       THEN [state_bag EXCEPT !.kv[l] = cached \o cur]
                       ELSE state_bag]

(***************************************************************************)
(* StandardTransformerDecoder.forward and its parts.  Each returns the     *)
(* tensor together with the log of the sub-steps it ran.                   *)
(***************************************************************************)
\* the mask dropped when the sequence holds no padding (the reduction the
\* source's comment decides against)
_get_self_attn_padding_mask_any(d, seq) ==
    IF d.padding_idx # NoIdx /\ \E i \in 1..Len(seq) : seq[i] = d.padding_idx
    THEN [present |-> TRUE,
          m |-> to_float_mask([i \in 1..Len(seq) |-> seq[i] = d.padding_idx])]
    ELSE NoMask

_get_self_attn_padding_mask(d, seq) ==
    IF d.padding_idx # NoIdx
    THEN [present |-> TRUE,
          m |-> to_float_mask([i \in 1..Len(seq) |-> seq[i] = d.padding_idx])]
    ELSE NoMask

\* embed = self.embed(seq)
EmbedStep(d, seq) == [x |-> Embedding(d, seq), log |-> <<Ev("embed")>>]

\* if self.embed_scale != 1.0: embed = embed * self.embed_scale
ScaleStep(d, e) ==
    IF d.embed_scale # 1
    THEN [x |-> Scale(e.x, d.embed_scale), log |-> Append(e.log, Ev("scale"))]
    ELSE e

\* the positional encoder called without the state bag
PosStepNoBag(d, e, state_bag) ==
    IF d.has_pos_embed
    THEN [x |-> PositionalEmbedding(e.x, NoBag), log |-> Append(e.log, Ev("pos_embed"))]
    ELSE e

\* if self.pos_embed is not None: embed = self.pos_embed(embed, state_bag)
PosStep(d, e, state_bag) ==
    IF d.has_pos_embed
    THEN [x |-> PositionalEmbedding(e.x, state_bag), log |-> Append(e.log, Ev("pos_embed"))]
    ELSE e

\* if self.embed_norm is not None: embed = self.embed_norm(embed)
NormStep(d, e) ==
    IF d.has_embed_norm
    THEN [x |-> LayerNorm(e.x, 1), log |-> Append(e.log, Ev("embed_norm"))]
    ELSE e

\* F.dropout called without self.training (its own default is training=True)
DropoutStepAlways(d, e, train, noise) ==
    IF d.embed_dropout_p > 0
    THEN [x |-> dropout(e.x, d.embed_dropout_p, TRUE, noise),
          log |-> Append(e.log, Ev("dropout"))]
    ELSE e

\* if self.embed_dropout_p > 0.0:
\*     embed = F.dropout(embed, self.embed_dropout_p, self.training)
DropoutStep(d, e, train, noise) ==
    IF d.embed_dropout_p > 0
    THEN [x |-> dropout(e.x, d.embed_dropout_p, train, noise),
          log |-> Append(e.log, Ev("dropout"))]
    ELSE e

\* the positional encoder applied before the scale
_forward_embed_pos_first(d, train, seq, state_bag, noise) ==
    DropoutStep(d, NormStep(d, ScaleStep(d, PosStep(d, EmbedStep(d, seq), state_bag))),
                train, noise)

_forward_embed(d, train, seq, state_bag, noise) ==
    DropoutStep(d, NormStep(d, PosStep(d, ScaleStep(d, EmbedStep(d, seq)), state_bag)),
                train, noise)

\* the test without self.training
MaskNeededNoBag(train, state_bag) == ~state_bag.present

\* `if self.training or state_bag is None:` before the mask generator is called
MaskNeeded(train, state_bag) == train \/ ~state_bag.present

\* an iteration that bypasses LayerDrop (every registered layer)
LayersToRunAll(d, train, draws) == [l \in 1..Len(d.layers) |-> l]

\* `for layer in self.layers:`, the iteration of the ModuleList
LayersToRun(d, train, draws) == drop_iter(d, train, draws)

\* the loop over self.layers: `todo` are the indices still to run.  A layer
\* raises when told to (fail_at) or when its input has not its width; the call
\* then ends with what the earlier layers did to the state bag.
RECURSIVE LayerLoop(_, _, _, _, _, _)
LayerLoop(todo, am, pm, enc, fail_at, acc) ==
    IF todo = <<>> THEN acc
    ELSE LET l == Head(todo)
             log == Append(acc.log, LayerEv(l, am, pm, acc.state_bag))
         IN  IF l = fail_at \/ acc.x.dim # acc.dims[l]
             THEN [acc EXCEPT !.ok = FALSE, !.x = NoTensor, !.log = log]
             ELSE LET r == TransformerDecoderLayer(l, acc.x, am, pm, enc, acc.state_bag)
                  IN  LayerLoop(Tail(todo), am, pm, enc, fail_at,
                                [acc EXCEPT !.x = r.x, !.state_bag = r.state_bag,
                                            !.log = log])

_forward_decoder_layers(d, train, x, pm, enc, state_bag, fail_at, draws) ==
    LET gen == MaskNeeded(train, state_bag)
        am == IF gen THEN CausalAttentionMaskGenerator(x) ELSE NoMask
        r == LayerLoop(LayersToRun(d, train, draws), am, pm, enc, fail_at,
                       [ok |-> TRUE, x |-> x, state_bag |-> state_bag,
                        log |-> IF gen THEN <<Ev("mask_gen")>> ELSE <<>>,
                        dims |-> d.layers])
    IN  IF r.ok /\ d.has_layer_norm
        THEN [r EXCEPT !.x = LayerNorm(r.x, 2), !.log = Append(r.log, Ev("layer_norm"))]
        ELSE r

\* forward(seq, enc_out, enc_padding_mask, state_bag); `enc` stands for the
\* encoder output and its padding mask (0: none), `fail_at` for the index of
\* a layer whose call raises (0: none), `draws` and `noise` for the random
\* numbers LayerDrop and dropout draw when they draw
forward(d, train, seq, enc, state_bag, fail_at, draws, noise) ==
    LET pm == _get_self_attn_padding_mask(d, seq)
        e == _forward_embed(d, train, seq, state_bag, noise)
        x1 == IF d.has_inp_dim_proj
              THEN [x |-> InternalDimProjection(e.x, d.model_dim, 5, 2),
                    log |-> Append(e.log, Ev("inp_dim_proj"))]
              ELSE e
        r == _forward_decoder_layers(d, train, x1.x, pm, enc, state_bag, fail_at, draws)
        x2 == IF r.ok /\ d.has_out_dim_proj
              THEN [x |-> InternalDimProjection(r.x, d.embedding_dim, 7, 3),
                    log |-> Append(r.log, Ev("out_dim_proj"))]
              ELSE [x |-> r.x, log |-> r.log]
    IN  [status |-> IF r.ok THEN "returned" ELSE "raised",
         out |-> x2.x, log |-> x1.log \o x2.log, state_bag |-> r.state_bag,
         pad_mask |-> pm, stack_in |-> x1.x, stack_out |-> r.x]

(***************************************************************************)
(* The state machine: a caller constructs a decoder, switches it between   *)
(* training and inference, and calls forward: without a state bag, with a  *)
(* new state bag it drops after the call, or with the state bag it keeps   *)
(* across calls (`bag`).                                                   *)
(***************************************************************************)
NoCall ==
    [kind |-> "none", training |-> FALSE, seq |-> <<>>, enc |-> 0,
     use_bag |-> FALSE, fail_at |-> 0, bag_before |-> NoBag, bag_after |-> NoBag,
     status |-> "", out |-> NoTensor, log |-> <<>>, pad_mask |-> NoMask,
     stack_in |-> NoTensor, stack_out |-> NoTensor, hist |-> <<>>]

\* no symbol has been fed through the caller's state bag yet
NothingFed == [toks |-> <<>>, enc |-> 0, clean |-> TRUE]

\* the symbols fed through the caller's state bag so far, tracked while the
\* bag has been used for nothing but step-by-step inference: one position per
\* call, every call returning, the step advanced once between calls, the same
\* encoder output throughout
Feed(f, b, train, seq, enc, status) ==
    IF /\ f.clean /\ ~train /\ status = "returned" /\ Len(seq) = 1
       /\ b.step = Len(f.toks)
       /\ (f.toks = <<>> \/ f.enc = enc)
    THEN [toks |-> f.toks \o seq, enc |-> enc, clean |-> TRUE]
    ELSE [toks |-> <<>>, enc |-> 0, clean |-> FALSE]

Init ==
    /\ dec = Unconstructed
    /\ training = TRUE
    /\ bag = EmptyBag(0)
    /\ fed = NothingFed
    /\ call = NoCall

Construct(a) ==
    /\ dec.status = "unconstructed"
    /\ dec' = StandardTransformerDecoder(a)
    /\ bag' = EmptyBag(Len(dec'.layers))
    /\ UNCHANGED <<training, fed, call>>

\* Module.train(mode) / Module.eval()
SetTraining(mode) ==
    /\ dec.status = "ok"
    /\ training # mode
    /\ training' = mode
    /\ UNCHANGED <<dec, bag, fed, call>>

\* the caller starts a new generation with an empty state bag
NewBag ==
    /\ dec.status = "ok"
    /\ bag # EmptyBag(Len(dec.layers))
    /\ bag' = EmptyBag(Len(dec.layers))
    /\ fed' = NothingFed
    /\ UNCHANGED <<dec, training, call>>

\* IncrementalStateBag.increment_step, which the caller calls after a forward
\* call that cached a position
IncrementStep ==
    /\ dec.status = "ok"
    /\ \E l \in 1..Len(dec.layers) : bag.step < Len(bag.kv[l])
    /\ bag' = [bag EXCEPT !.step = bag.step + 1]
    /\ UNCHANGED <<dec, training, fed, call>>

Forward(seq, enc, mode, fail_at, draws, noise) ==
    /\ dec.status = "ok"
    /\ mode = "kept" =>
           \A l \in 1..Len(dec.layers) : Len(bag.kv[l]) + Len(seq) <= MaxCache
    /\ LET state_bag == CASE mode = "none" -> NoBag
                          [] mode = "fresh" -> EmptyBag(Len(dec.layers))
                          [] mode = "kept" -> bag
           r == forward(dec, training, seq, enc, state_bag, fail_at, draws, noise)
           f == IF mode = "kept" THEN Feed(fed, bag, training, seq, enc, r.status)
                ELSE fed
       IN  /\ call' = [kind |-> "forward", training |-> training, seq |-> seq,
                       enc |-> enc, use_bag |-> state_bag.present, fail_at |-> fail_at,
                       bag_before |-> state_bag, bag_after |-> r.state_bag,
                       status |-> r.status, out |-> r.out, log |-> r.log,
                       pad_mask |-> r.pad_mask, stack_in |-> r.stack_in,
                       stack_out |-> r.stack_out,
                       hist |-> IF mode = "kept" THEN f.toks ELSE <<>>]
           /\ bag' = IF mode = "kept" THEN r.state_bag ELSE bag
           /\ fed' = f
    /\ UNCHANGED <<dec, training>>

(***************************************************************************)
(* The inputs the specifications draw from.                                *)
(***************************************************************************)
InputSeqs == SeqsUpTo(Syms, MaxSeqLen) \ {<<>>}

LayerStacks == SeqsUpTo(Dims, MaxLayers)

\* the stacks whose layers share one model_dim
UniformStacks == {s \in LayerStacks : s # <<>> /\ \A i \in 1..Len(s) : s[i] = s[1]}

Args(stacks, one_shots, dims, pads, pos_dims, no_scales, norms, dropout_ps, drop_ps, orders) ==
    [embed : [embedding_dim : dims, padding_idx : pads],
     pos_embed_dim : pos_dims,
     layers : [items : stacks, one_shot : one_shots],
     no_scale_embed : no_scales,
     norm_embed : norms,
     embed_dropout_p : dropout_ps,
     layer_drop_p : drop_ps,
     norm_order : orders]

Calls(seqs, encs, modes, fails, draw_vals, noise_vals) ==
    \E seq \in seqs, enc \in encs, mode \in modes,
       fail_at \in fails \cap (0..Len(dec.layers)),
       draws \in [1..Len(dec.layers) -> draw_vals] :
        \E noise \in [1..Len(seq) -> noise_vals] :
            Forward(seq, enc, mode, fail_at, draws, noise)

(***************************************************************************)
(* SpecCtor: construction alone, over every combination of arguments.      *)
(***************************************************************************)
CtorArgs ==
    Args(LayerStacks, BOOLEAN, Dims, {NoIdx, 0}, {0} \cup Dims, BOOLEAN, BOOLEAN,
         EmbedDropoutPs, LayerDropPs, NormOrders)

NextCtor == \E a \in CtorArgs : Construct(a)

SpecCtor == Init /\ [][NextCtor]_vars

(***************************************************************************)
(* Spec: every combination of the arguments that decide which sub-steps a  *)
(* forward call has and how wide its tensors are; no LayerDrop, no padding *)
(* index.                                                                  *)
(***************************************************************************)
PipelineArgs ==
    Args(LayerStacks \ {<<>>}, BOOLEAN, Dims, {NoIdx}, {0} \cup Dims, BOOLEAN, BOOLEAN,
         EmbedDropoutPs, {0}, NormOrders)

Next ==
    \/ \E a \in PipelineArgs : Construct(a)
    \/ \E mode \in BOOLEAN : SetTraining(mode)
    \/ Calls({s \in InputSeqs : \A i \in 1..Len(s) : s[i] = 1}, {0}, {"none", "fresh"},
             {0}, {75}, {FALSE})

Spec == Init /\ [][Next]_vars

OnePosition == {s \in InputSeqs : Len(s) = 1}

(***************************************************************************)
(* SpecMask: decoders with and without a padding index and with every      *)
(* LayerDrop probability; every input sequence with no layer dropped, and  *)
(* one position with every outcome of LayerDrop's draws.                   *)
(***************************************************************************)
MaskArgs ==
    Args(UniformStacks, {FALSE}, {4}, {NoIdx, 0}, {0}, {FALSE}, {FALSE}, {0},
         LayerDropPs, {"POST"})

NextMask ==
    \/ \E a \in MaskArgs : Construct(a)
    \/ \E mode \in BOOLEAN : SetTraining(mode)
    \/ Calls(InputSeqs, {0}, {"none", "fresh"}, {0}, {75}, {FALSE})
    \/ Calls(OnePosition, {0}, {"none", "fresh"}, {0}, DrawVals, {FALSE})

SpecMask == Init /\ [][NextMask]_vars

(***************************************************************************)
(* SpecDet: decoders with every dropout and LayerDrop probability, called  *)
(* on one position with every outcome of the random draws.                 *)
(***************************************************************************)
DetArgs ==
    Args({s \in UniformStacks : s[1] = 4}, {FALSE}, {4}, {NoIdx}, {0}, {FALSE}, {FALSE},
         EmbedDropoutPs, LayerDropPs, {"POST"})

NextDet ==
    \/ \E a \in DetArgs : Construct(a)
    \/ \E mode \in BOOLEAN : SetTraining(mode)
    \/ Calls(OnePosition, {0, 1}, {"none", "fresh"}, {0}, DrawVals, BOOLEAN)

SpecDet == Init /\ [][NextDet]_vars

(***************************************************************************)
(* SpecDrop: decoders with every LayerDrop probability and normalization   *)
(* order, with and without dimension adapters.                             *)
(***************************************************************************)
DropArgs ==
    Args(UniformStacks, {FALSE}, Dims, {NoIdx}, {0}, {FALSE}, {FALSE}, {0},
         LayerDropPs, NormOrders)

NextDrop ==
    \/ \E a \in DropArgs : Construct(a)
    \/ \E mode \in BOOLEAN : SetTraining(mode)
    \/ Calls(OnePosition, {0}, {"none", "fresh"}, {0}, DrawVals, {FALSE})

SpecDrop == Init /\ [][NextDrop]_vars

(***************************************************************************)
(* SpecInc: step-by-step decoding through the state bag the caller keeps,  *)
(* one position per call.                                                  *)
(***************************************************************************)
IncArgs ==
    Args({s \in UniformStacks : s[1] = 4}, {FALSE}, Dims, {NoIdx, 0}, {0} \cup Dims,
         {FALSE}, BOOLEAN, {0}, {0}, {"POST", "PRE"})

NextInc ==
    \/ \E a \in IncArgs : Construct(a)
    \/ \E mode \in BOOLEAN : SetTraining(mode)
    \/ NewBag
    \/ IncrementStep
    \/ Calls(OnePosition, {0}, {"kept"}, {0}, {75}, {FALSE})

SpecInc == Init /\ [][NextInc]_vars

(***************************************************************************)
(* SpecFail: forward calls through the state bag the caller keeps, with    *)
(* layers that may raise.                                                  *)
(***************************************************************************)
FailArgs ==
    Args(UniformStacks, {FALSE}, {4}, {NoIdx}, {0}, {FALSE}, {FALSE}, {0}, {0}, {"POST"})

NextFail ==
    \/ \E a \in FailArgs : Construct(a)
    \/ \E mode \in BOOLEAN : SetTraining(mode)
    \/ NewBag
    \/ IncrementStep
    \/ Calls(InputSeqs, {0}, {"kept"}, 0..MaxLayers, {75}, {FALSE})

SpecFail == Init /\ [][NextFail]_vars

(***************************************************************************)
(* The claims.                                                             *)
(***************************************************************************)
Returned == call.kind = "forward" /\ call.status = "returned"

\* how often a sub-step occurs in the log of the last call
Count(op) == Cardinality({i \in 1..Len(call.log) : call.log[i].op = op})

\* the indices of the layers the last call invoked, in the order of the calls
LayerEvents == SelectSeq(call.log, LAMBDA e : e.op = "layer")

AllLayers == [l \in 1..Len(dec.layers) |-> l]

\* C1: every forward call that returns yields one row per input position and
\* a trailing width equal to the decoder's model_dim, also when embedding_dim
\* differs from model_dim.
C1_OutputWidthIsModelDim ==
    Returned => Len(call.out.v) = Len(call.seq) /\ call.out.dim = dec.model_dim

\* C8: the input and output dimension adapters are both present or both
\* absent, present exactly when embedding_dim differs from model_dim, before
\* and after any forward call; a forward call applies each adapter exactly
\* when it is present, and with embedding_dim = model_dim its output has
\* width model_dim.
C8_AdaptersIffWidthsDiffer ==
    /\ dec.status = "ok" =>
           /\ dec.has_inp_dim_proj = dec.has_out_dim_proj
           /\ dec.has_inp_dim_proj = (dec.embedding_dim # dec.model_dim)
    /\ Returned =>
           /\ Count("inp_dim_proj") = IF dec.embedding_dim # dec.model_dim THEN 1 ELSE 0
           /\ Count("out_dim_proj") = IF dec.embedding_dim # dec.model_dim THEN 1 ELSE 0
           /\ dec.embedding_dim = dec.model_dim => call.out.dim = dec.model_dim

C8_Witness ==
    /\ Returned /\ ~call.training /\ call.use_bag
    /\ dec.embedding_dim = dec.model_dim /\ Len(dec.layers) = MaxLayers
    /\ call.out.dim = dec.model_dim

Rank(op) ==
    CASE op = "embed" -> 1
      [] op = "scale" -> 2
      [] op = "pos_embed" -> 3
      [] op = "embed_norm" -> 4
      [] op = "dropout" -> 5
      [] op = "inp_dim_proj" -> 6
      [] op = "mask_gen" -> 7
      [] op = "layer" -> 8
      [] op = "layer_norm" -> 9
      [] op = "out_dim_proj" -> 10

Expected(op, present) == Count(op) = IF present THEN 1 ELSE 0

\* C10: the sub-steps of a forward call run in the order embedding lookup,
\* scale, positional encoding, embedding normalization, dropout, input
\* adapter, mask construction, layers in stack order, stack normalizer, output
\* adapter, none after a later one; a call that returns ran each step the
\* decoder has exactly once; embed_scale is 1 with no_scale_embed and the
\* square root of embedding_dim otherwise.
C10_SubStepsInOrder ==
    /\ call.kind = "forward" =>
           \A i, j \in 1..Len(call.log) :
               i < j => \/ Rank(call.log[i].op) < Rank(call.log[j].op)
                        \/ /\ call.log[i].op = "layer" /\ call.log[j].op = "layer"
                           /\ call.log[i].idx < call.log[j].idx
    /\ dec.status = "ok" =>
           IF dec.no_scale_embed THEN dec.embed_scale = 1
           ELSE dec.embed_scale * dec.embed_scale = dec.embedding_dim
    /\ Returned =>
           /\ Expected("embed", TRUE)
           /\ Expected("scale", dec.embed_scale # 1)
           /\ Expected("pos_embed", dec.has_pos_embed)
           /\ Expected("embed_norm", dec.has_embed_norm)
           /\ Expected("dropout", dec.embed_dropout_p > 0)
           /\ Expected("inp_dim_proj", dec.has_inp_dim_proj)
           /\ Expected("mask_gen", call.training \/ ~call.use_bag)
           /\ Expected("layer_norm", dec.norm_order # "POST")
           /\ Expected("out_dim_proj", dec.has_out_dim_proj)
           /\ dec.layer_drop_p = 0 =>
                  [i \in 1..Len(LayerEvents) |-> LayerEvents[i].idx] = AllLayers

C10_Witness ==
    /\ Returned /\ Len(call.log) = 9 + MaxLayers
    /\ Len(LayerEvents) = MaxLayers

\* C2: a `layers` argument in which some layer's model_dim differs from the
\* first layer's is rejected with the error that names the first offending
\* index, so that the layers of a constructed decoder all have the decoder's
\* model_dim.
C2_MismatchedLayersRejected ==
    /\ (\E i \in 1..Len(dec.layers) : dec.layers[i] # dec.layers[1]) =>
           /\ dec.status = "error" /\ dec.error = "layer_model_dim"
           /\ dec.err_idx = FirstMismatch(dec.layers, dec.layers[1])
    /\ dec.status = "ok" =>
           \A i \in 1..Len(dec.layers) : dec.layers[i] = dec.model_dim

\* C3: a forward call with a state bag that raises leaves the state bag as it
\* was before the call.
C3_NoPartialStateUpdate ==
    (call.kind = "forward" /\ call.use_bag /\ call.status = "raised") =>
        call.bag_after = call.bag_before

\* the forward call over a whole sequence, in inference, without a state bag
FullPass(seq, enc) ==
    forward(dec, FALSE, seq, enc, NoBag, 0,
            [l \in 1..Len(dec.layers) |-> 0], [i \in 1..Len(seq) |-> FALSE])

\* C4: in inference, when a sequence is fed one position per call through one
\* state bag, the step advanced between the calls, each call returns for its
\* position the output that one forward call without a state bag over the
\* prefix fed so far returns for the prefix's last position.
C4_IncrementalEquivalence ==
    (call.kind = "forward" /\ call.hist # <<>>) =>
        LET full == FullPass(call.hist, call.enc)
        IN  /\ call.status = "returned" /\ full.status = "returned"
            /\ call.out.dim = full.out.dim
            /\ Len(call.out.v) = 1
            /\ call.out.v[1] = full.out.v[Len(call.hist)]

C4_Witness ==
    /\ call.kind = "forward" /\ ~call.training /\ Len(call.hist) = MaxCache
    /\ dec.has_pos_embed /\ Len(dec.layers) = MaxLayers
    /\ dec.padding_idx # NoIdx /\ call.hist[1] = dec.padding_idx
    /\ call.bag_before.step = MaxCache - 1

\* C5: in inference, whatever layer_drop_p and embed_dropout_p are, a forward
\* call invokes every layer once, in stack order, and its result is the one
\* and only result the call has for every outcome of the random draws: that
\* of the same decoder with both probabilities 0.
C5_InferenceDeterministic ==
    (call.kind = "forward" /\ ~call.training) =>
        /\ [i \in 1..Len(LayerEvents) |-> LayerEvents[i].idx] = AllLayers
        /\ \A draws \in [1..Len(dec.layers) -> DrawVals],
              noise \in [1..Len(call.seq) -> BOOLEAN] :
               LET r == forward(dec, call.training, call.seq, call.enc,
                                call.bag_before, call.fail_at, draws, noise)
                   plain == forward([dec EXCEPT !.layer_drop_p = 0,
                                                !.embed_dropout_p = 0],
                                    call.training, call.seq, call.enc,
                                    call.bag_before, call.fail_at, draws, noise)
               IN  /\ r.status = call.status /\ r.out = call.out
                   /\ r.state_bag = call.bag_after
                   /\ plain.out = call.out /\ plain.state_bag = call.bag_after

C5_Witness ==
    /\ Returned /\ ~call.training /\ call.use_bag
    /\ dec.layer_drop_p = 100 /\ dec.embed_dropout_p > 0
    /\ Len(LayerEvents) = MaxLayers

DropAll == call.kind = "forward" /\ call.training /\ dec.layer_drop_p = 100

\* C6 as claimed: in training with layer_drop_p = 1.0, for every
\* normalization order, no layer runs, the value leaving the layer stack
\* equals the value that entered it, and the state bag is not mutated.
C6_DropAllIsIdentity ==
    DropAll =>
        /\ call.status = "returned" /\ LayerEvents = <<>>
        /\ call.stack_out = call.stack_in
        /\ call.bag_after = call.bag_before

\* C6 as amended: in training with layer_drop_p = 1.0 no layer runs and the
\* state bag is not mutated; the value leaving the layer stack equals the
\* value that entered it with the POST order, and the stack normalizer's
\* output for the value that entered it with PRE and PRE_FINAL.
C6_DropAllIsIdentityUpToNorm ==
    DropAll =>
        /\ call.status = "returned" /\ LayerEvents = <<>>
        /\ call.stack_out = IF dec.norm_order = "POST" THEN call.stack_in
                            ELSE LayerNorm(call.stack_in, 2)
        /\ call.bag_after = call.bag_before

C6_Witness ==
    /\ DropAll /\ call.use_bag /\ dec.norm_order = "PRE_FINAL"
    /\ dec.has_out_dim_proj /\ Len(dec.layers) = MaxLayers
    /\ call.stack_out # call.stack_in

\* C7: the padding mask of a forward call is derived from the call's own
\* input: with a padding index it is passed, has one entry per position and
\* marks exactly the positions holding the padding index (none, when there is
\* no padding); without a padding index no mask is passed; every layer
\* receives this mask.
C7_PaddingMaskFromInput ==
    call.kind = "forward" =>
        /\ IF dec.padding_idx = NoIdx THEN call.pad_mask = NoMask
           ELSE /\ call.pad_mask.present
                /\ Len(call.pad_mask.m) = Len(call.seq)
                /\ \A i \in 1..Len(call.seq) :
                       call.pad_mask.m[i] = IF call.seq[i] = dec.padding_idx
                                            THEN NegInf ELSE 0
        /\ \A i \in 1..Len(LayerEvents) : LayerEvents[i].pm = call.pad_mask

C7_Witness ==
    /\ Returned /\ dec.padding_idx # NoIdx /\ Len(call.seq) = MaxSeqLen
    /\ \A i \in 1..Len(call.seq) : call.seq[i] # dec.padding_idx
    /\ call.pad_mask.present /\ Len(LayerEvents) = MaxLayers

\* C9: a forward call invokes the mask generator exactly when the decoder is
\* in training or no state bag is given, and the layers then receive a mask;
\* in inference with a state bag no layer receives a self-attention mask; all
\* layers of a call receive the same self-attention mask, padding mask and
\* state bag.
C9_MaskGeneratedIffNeeded ==
    call.kind = "forward" =>
        /\ Count("mask_gen") = IF call.training \/ ~call.use_bag THEN 1 ELSE 0
        /\ \A i \in 1..Len(LayerEvents) :
               /\ LayerEvents[i].am.present = (call.training \/ ~call.use_bag)
               /\ LayerEvents[i].am = LayerEvents[1].am
               /\ LayerEvents[i].pm = LayerEvents[1].pm
               /\ LayerEvents[i].sb = call.use_bag

C9_Witness ==
    /\ Returned /\ ~call.training /\ call.use_bag
    /\ Len(LayerEvents) = MaxLayers /\ Count("mask_gen") = 0

====
